---------------------------- MODULE Spec2Model ----------------------------
(* The tool-calling agent loop of the two agent notebooks.                  *)
(*                                                                          *)
(*   09_Dynamic_Chat_Agents.ipynb  a StateGraph(MessagesState) with the     *)
(*       nodes "chatbot" (call_model) and "tools" (ToolNode), compiled      *)
(*       with a MemorySaver checkpointer and driven through app.stream      *)
(*       with a thread_id;                                                  *)
(*   07_LangChain_agents.ipynb     create_react_agent(model, tools) with    *)
(*       the hypotenuse_length tool, no checkpointer, the history carried   *)
(*       by the caller in message_history.                                  *)
(*                                                                          *)
(* A run of the graph is a sequence of supersteps: one node executes, its   *)
(* writes are merged into state["messages"] by the add_messages reducer,    *)
(* the conditional edge picks the next node, and (when a checkpointer is    *)
(* configured) the state is checkpointed under the run's thread_id.         *)
(* The language model is an external service: what it answers is a          *)
(* nondeterministic choice, and a call to it may raise.                     *)
(*                                                                          *)
(* requirements.txt names langgraph without a version. What ToolNode does   *)
(* with an exception raised inside a tool differs between releases (older   *)
(* ones turn every exception into an error ToolMessage, newer ones re-raise *)
(* exceptions of the tool's own code), so handle_tool_errors is fixed       *)
(* nondeterministically in the initial state.                               *)
EXTENDS Integers, Sequences, FiniteSets, TLC

VARIABLES
    nb,                 \* the notebook being run: 7 or 9
    handle_tool_errors, \* ToolNode's default for exceptions raised by a tool
    memory,             \* MemorySaver: thread_id -> checkpointed state["messages"]
    message_history,    \* notebook 07: message_history = response["messages"]
    thread,             \* config["configurable"]["thread_id"] of the current run
    loaded,             \* the messages the current run started from
    messages,           \* state["messages"] of the current run
    pc,                 \* "idle", "chatbot", "tools", "END", "raised"
    steps,              \* supersteps executed by the current run
    error,              \* the exception that ended the run, "" when none
    llm_input,          \* the message list last passed to the model's invoke
    turns,              \* runs started so far
    printed,            \* notebook 09: what the caller has printed for the run
    filtered_messages   \* notebook 07: the conversation the caller displays

vars == <<nb, handle_tool_errors, memory, message_history, thread, loaded,
          messages, pc, steps, error, llm_input, turns, printed,
          filtered_messages>>

-----------------------------------------------------------------------------
(* Bounds of the model                                                      *)

\* runs (user turns) started in one behaviour
MaxTurns == 2

\* tool calls one assistant message may carry
MaxCalls == 2

\* superstep budget of one run. The notebooks pass no "recursion_limit" in
\* config, so the library default (25) applies; the model explores the same
\* mechanism with a smaller budget.
recursion_limit == 3

-----------------------------------------------------------------------------
(* Strings as tuples of one-character strings                               *)

Last(s) == s[Len(s)]

RECURSIVE Join(_)
Join(cs) == IF cs = <<>> THEN "" ELSE Head(cs) \o Join(Tail(cs))

RECURSIVE Reverse(_)
Reverse(cs) == IF cs = <<>> THEN <<>> ELSE Append(Reverse(Tail(cs)), Head(cs))

Digits == {"0", "1", "2", "3", "4", "5", "6", "7", "8", "9"}
Lowers == {"a", "b", "c", "e", "l", "v"}
Uppers == {"A", "B", "L"}

DigitValue(c) ==
    CASE c = "0" -> 0 [] c = "1" -> 1 [] c = "2" -> 2 [] c = "3" -> 3
      [] c = "4" -> 4 [] c = "5" -> 5 [] c = "6" -> 6 [] c = "7" -> 7
      [] c = "8" -> 8 [] c = "9" -> 9

\* str.isalnum() and str.lower() on the characters the model uses
isalnum(c) == c \in Digits \cup Lowers \cup Uppers

lower(c) ==
    CASE c = "A" -> "a" [] c = "B" -> "b" [] c = "L" -> "l" [] OTHER -> c

\* str.strip(): leading and trailing blanks removed
RECURSIVE lstrip(_)
lstrip(cs) == IF cs # <<>> /\ Head(cs) = " " THEN lstrip(Tail(cs)) ELSE cs

strip(cs) == Reverse(lstrip(Reverse(lstrip(cs))))

\* str.split(','): the segments between commas, at least one
RECURSIVE split(_)
split(cs) ==
    IF cs = <<>> THEN << <<>> >>
    ELSE LET rest == split(Tail(cs)) IN
         IF Head(cs) = "," THEN << <<>> >> \o rest
         ELSE << <<Head(cs)>> \o Head(rest) >> \o Tail(rest)

-----------------------------------------------------------------------------
(* Messages                                                                 *)

NoId == <<>>

HumanMessage(content) ==
    [role |-> "user", content |-> content, tool_calls |-> <<>>,
     tool_call_id |-> NoId]

AIMessage(content, calls) ==
    [role |-> "assistant", content |-> content, tool_calls |-> calls,
     tool_call_id |-> NoId]

ToolMessage(content, id) ==
    [role |-> "tool", content |-> content, tool_calls |-> <<>>,
     tool_call_id |-> id]

ToolCall(id, name, args) == [id |-> id, name |-> name, args |-> args]

-----------------------------------------------------------------------------
(* The tools                                                                *)

\* What a tool function does: it returns a value or raises.
Returned(text) == [raised |-> FALSE, text |-> text]
Raised(exc)    == [raised |-> TRUE, text |-> exc]

\* What the llm.invoke inside a date tool does: it answers or raises.
LLMOutcomes == {Returned("events"), Raised("timeout")}

\* (mutant) the handler has no try/except: the model's exception leaves it
date_checker_uncaught(date, llm) ==
    IF llm.raised THEN Raised(llm.text) ELSE Returned(llm.text)

\* date_checker: the model's content, or the exception as an error text
date_checker(date, llm) ==
    IF llm.raised THEN Returned("Error retrieving events: " \o llm.text)
    ELSE Returned(llm.text)

\* historical_events: the same handler under its second name
historical_events(date_input, llm) ==
    IF llm.raised THEN Returned("Error retrieving events: " \o llm.text)
    ELSE Returned(llm.text)

\* (mutant) the cleaning keeps the case of the letters
cleaned_keep_case(text) == SelectSeq(text, isalnum)

\* check_palindrome: compare the lower-cased alphanumeric characters with
\* their reverse
cleaned(text) ==
    LET keep == SelectSeq(text, isalnum) IN
    [i \in 1..Len(keep) |-> lower(keep[i])]

check_palindrome(text) ==
    IF cleaned(text) = Reverse(cleaned(text))
    THEN Returned("The phrase or word '" \o Join(text) \o "' is a palindrome.")
    ELSE Returned("The phrase or word '" \o Join(text) \o "' is not a palindrome.")

\* palindrome_checker: the same function under its second name
palindrome_checker(text) ==
    IF cleaned(text) = Reverse(cleaned(text))
    THEN Returned("The phrase or word '" \o Join(text) \o "' is a palindrome.")
    ELSE Returned("The phrase or word '" \o Join(text) \o "' is not a palindrome.")

\* float(s) for the inputs of the model: an unsigned decimal integer, else
\* ValueError (reported as -1)
RECURSIVE DecimalValue(_)
DecimalValue(cs) ==
    IF cs = <<>> THEN 0
    ELSE 10 * DecimalValue(SubSeq(cs, 1, Len(cs) - 1)) + DigitValue(Last(cs))

float(cs) ==
    IF cs # <<>> /\ \A i \in 1..Len(cs) : cs[i] \in Digits
    THEN DecimalValue(cs) ELSE -1

\* math.sqrt(n) as text: exact when n is a perfect square, symbolic otherwise
sqrt(n) ==
    IF \E r \in 0..n : r * r = n
    THEN ToString(CHOOSE r \in 0..n : r * r = n) \o ".0"
    ELSE "sqrt(" \o ToString(n) \o ")"

\* (mutant) the sides are added without being squared
hypotenuse_length_no_square(input) ==
    LET sides == split(input) IN
    IF float(strip(sides[1])) < 0 THEN Raised("ValueError")
    ELSE IF Len(sides) < 2 THEN Raised("IndexError")
    ELSE IF float(strip(sides[2])) < 0 THEN Raised("ValueError")
    ELSE Returned(sqrt(float(strip(sides[1])) + float(strip(sides[2]))))

\* hypotenuse_length: split at the commas, strip and convert the first two
\* segments, return sqrt(a**2 + b**2). Nothing is caught.
hypotenuse_length(input) ==
    LET sides == split(input) IN
    IF float(strip(sides[1])) < 0 THEN Raised("ValueError")
    ELSE IF Len(sides) < 2 THEN Raised("IndexError")
    ELSE IF float(strip(sides[2])) < 0 THEN Raised("ValueError")
    ELSE LET a == float(strip(sides[1]))
             b == float(strip(sides[2]))
         IN  Returned(sqrt(a * a + b * b))

\* The tool calls the model may ask for, per notebook (name, arguments)
Requests09 ==
    { <<"date_checker", <<"1", "9", "5", "5">> >>,
      <<"check_palindrome", <<"L", "e", "v", "e", "l">> >> }

Requests07 ==
    { <<"hypotenuse_length", <<"3", ",", " ", "4">> >>,
      <<"hypotenuse_length", <<"a", "b", "c">> >> }

Requests(n) == IF n = 9 THEN Requests09 ELSE Requests07

\* The names of the tools handed to ToolNode / create_react_agent
tools(n) == IF n = 9 THEN {"date_checker", "check_palindrome"}
                     ELSE {"hypotenuse_length"}

\* ToolNode's dispatch on the tool's name; a name that is not among the tools
\* is answered with an error text, the run goes on
RunTool(call, llm) ==
    IF call.name \notin tools(nb)
    THEN Returned("Error: " \o call.name \o " is not a valid tool.")
    ELSE CASE call.name = "date_checker"      -> date_checker(call.args, llm)
           [] call.name = "check_palindrome"  -> check_palindrome(call.args)
           [] call.name = "hypotenuse_length" -> hypotenuse_length(call.args)


-----------------------------------------------------------------------------
(* The graph's state and the checkpointer                                   *)

Threads == {"1", "2"}
Queries == {"q1", "q2"}

\* (mutant) a state key without the reducer: a node's write replaces the list
add_messages_overwrite(left, right) == right

\* the reducer of MessagesState: a node's messages are appended to the state
add_messages(left, right) == left \o right

\* (mutant) the read ignores the thread_id and returns any stored checkpoint
get_tuple_any_thread(mem, tid) ==
    IF DOMAIN mem # {} THEN mem[CHOOSE t \in DOMAIN mem : TRUE] ELSE <<>>

\* MemorySaver, read: the checkpoint of a thread_id, the empty state when the
\* thread_id has none
get_tuple(mem, tid) == IF tid \in DOMAIN mem THEN mem[tid] ELSE <<>>

\* (mutant) the write keeps only the newest message of the state
put_last_only(mem, tid, msgs) ==
    [t \in DOMAIN mem \cup {tid} |-> IF t = tid THEN <<Last(msgs)>> ELSE mem[t]]

\* (mutant) the write drops the checkpoints of the other threads
put_drop_others(mem, tid, msgs) == [t \in {tid} |-> msgs]

\* MemorySaver, write: the checkpoint of tid is replaced, the others are kept
put(mem, tid, msgs) ==
    [t \in DOMAIN mem \cup {tid} |-> IF t = tid THEN msgs ELSE mem[t]]

\* (mutant) the app is compiled without the checkpointer
checkpoint_none(mem, n, tid, msgs) == mem

\* the app of notebook 09 is compiled with checkpointer=memory, the agent of
\* notebook 07 without one
checkpoint(mem, n, tid, msgs) == IF n = 9 THEN put(mem, tid, msgs) ELSE mem

\* (mutant) the conditional edge always ends the run
should_continue_always_end(last_message) == "END"

\* (mutant) the two targets of the conditional edge are swapped
should_continue_swapped(last_message) ==
    IF last_message.tool_calls # <<>> THEN "END" ELSE "tools"

\* should_continue: the conditional edge out of "chatbot"
should_continue(last_message) ==
    IF last_message.tool_calls # <<>> THEN "tools" ELSE "END"

\* call_model's first branch: the last message is an AIMessage with tool calls
EchoBranch(msgs) ==
    Last(msgs).role = "assistant" /\ Last(msgs).tool_calls # <<>>

\* (mutant) the model is given the last message only
ModelInput_last_only(msgs) == <<Last(msgs)>>

\* what call_model passes to model_with_tools.invoke
ModelInput(msgs) == msgs

\* the tool-call lists the model may answer with: up to MaxCalls requests,
\* the k-th call of the assistant message at position pos has id <<pos, k>>
CallLists(n, pos) ==
    UNION { { [k \in 1..len |-> ToolCall(<<pos, k>>, req[k][1], req[k][2])] :
                req \in [1..len -> Requests(n)] } : len \in 0..MaxCalls }

AIContents == {"", "text"}

\* the exceptions a call of the model may raise
ModelErrors == {"RateLimitError", "APIConnectionError"}

\* the messages the model may answer with: a final answer (its text may be
\* blank) or a request for tool calls (with blank text)
ModelResults(n, pos) ==
    { AIMessage(c, << >>) : c \in AIContents }
      \cup { AIMessage("", calls) : calls \in CallLists(n, pos) \ {<< >>} }

\* ToolNode: one ToolMessage per tool call of the last message, in the order
\* of the calls. An exception of a tool becomes an error message when
\* handle_tool_errors is on.
ToolOutputs(calls, llm) == [k \in 1..Len(calls) |-> RunTool(calls[k], llm[k])]

\* (mutant) the tools node returns no message
ToolMessages_none(calls, outs) == << >>

ToolMessages(calls, outs) ==
    [k \in 1..Len(calls) |->
        ToolMessage(IF outs[k].raised
                    THEN "Error: " \o outs[k].text \o " Please fix your mistakes."
                    ELSE outs[k].text,
                    calls[k].id)]

\* stream_mode="messages": the model's answer arrives as chunks whose texts
\* add up to the answer's content; the messages a node returns arrive whole
Fragments(content) ==
    CASE content = ""     -> { << >>, <<"">> }
      [] content = "text" -> { <<"text">>, <<"te", "xt">>, <<"t", "", "ext">> }

Contents(msgs) == [k \in 1..Len(msgs) |-> msgs[k].content]

HasContent(text) == text # ""

\* multi_tool_output / user_agent_multiturn: every streamed message that has
\* content and is no HumanMessage is printed (the nodes emit no HumanMessage)
multi_tool_output(n, sofar, texts) ==
    IF n = 9 THEN sofar \o Join(SelectSeq(texts, HasContent)) ELSE sofar

\* msg.content.strip() is empty: the contents that are blank
Blank == {"", " "}

\* (mutant) the display keeps every message
IsShown_any(msg) == TRUE

\* isinstance(msg, (HumanMessage, AIMessage)) and msg.content.strip()
IsShown(msg) == msg.role \in {"user", "assistant"} /\ msg.content \notin Blank

\* filtered_messages: the messages of the response that are shown, in order
Restrict(msgs) == SelectSeq(msgs, IsShown)

-----------------------------------------------------------------------------
(* Initial state                                                            *)

Init ==
    /\ nb \in {7, 9}
    /\ handle_tool_errors \in BOOLEAN
    /\ memory = << >>
    /\ message_history = << >>
    /\ thread = "1"
    /\ loaded = << >>
    /\ messages = << >>
    /\ pc = "idle"
    /\ steps = 0
    /\ error = ""
    /\ llm_input = << >>
    /\ turns = 0
    /\ printed = ""
    /\ filtered_messages = << >>

\* (mutant) a run in progress does not keep the caller from starting another
Running_never == FALSE

Running == pc \in {"chatbot", "tools"}

-----------------------------------------------------------------------------
(* Actions                                                                  *)

\* Notebook 09, multi_tool_output / user_agent_multiturn: app.stream with a
\* HumanMessage as input. The run starts from the thread's checkpoint, the
\* input is merged in and checkpointed, and "chatbot" is scheduled.
stream(tid, query) ==
    /\ nb = 9
    /\ ~Running
    /\ turns < MaxTurns
    /\ thread' = tid
    /\ loaded' = get_tuple(memory, tid)
    /\ messages' = add_messages(loaded', <<HumanMessage(query)>>)
    /\ memory' = checkpoint(memory, nb, tid, messages')
    /\ pc' = "chatbot"
    /\ steps' = 0
    /\ error' = ""
    /\ turns' = turns + 1
    /\ printed' = ""
    /\ UNCHANGED <<nb, handle_tool_errors, message_history, llm_input,
                   filtered_messages>>

\* Notebook 07: app.invoke on message_history + [("human", query)]
invoke(query) ==
    /\ nb = 7
    /\ ~Running
    /\ turns < MaxTurns
    /\ loaded' = << >>
    /\ messages' = add_messages(loaded', message_history \o <<HumanMessage(query)>>)
    /\ memory' = checkpoint(memory, nb, thread, messages')
    /\ pc' = "chatbot"
    /\ steps' = 0
    /\ error' = ""
    /\ turns' = turns + 1
    /\ printed' = ""
    /\ UNCHANGED <<nb, handle_tool_errors, message_history, thread, llm_input,
                   filtered_messages>>

\* The "chatbot" node: call_model, then should_continue. In notebook 07 the
\* response of a finished run becomes message_history.
call_model ==
    /\ pc = "chatbot"
    /\ steps < recursion_limit
    /\ IF nb = 9 /\ EchoBranch(messages)
       THEN \* tool_calls[0]["response"]: a tool call has no such key
            /\ pc' = "raised"
            /\ error' = "KeyError"
            /\ UNCHANGED <<messages, memory, message_history, steps, llm_input,
                           printed, filtered_messages>>
       ELSE \E result \in ModelResults(nb, Len(messages) + 1) :
            /\ llm_input' = ModelInput(messages)
            /\ messages' = add_messages(messages, <<result>>)
            /\ memory' = checkpoint(memory, nb, thread, messages')
            /\ pc' = should_continue(Last(messages'))
            /\ steps' = steps + 1
            /\ message_history' =
                 IF nb = 7 /\ pc' = "END" THEN messages' ELSE message_history
            /\ filtered_messages' =
                 IF nb = 7 /\ pc' = "END" THEN Restrict(messages')
                                          ELSE filtered_messages
            /\ \E chunks \in Fragments(result.content) :
                 printed' = multi_tool_output(nb, printed, chunks)
            /\ UNCHANGED error
    /\ UNCHANGED <<nb, handle_tool_errors, thread, loaded, turns>>

\* (mutant) the loop catches the model's exception and calls the model again
model_raises_retry ==
    /\ pc = "chatbot"
    /\ steps < recursion_limit
    /\ \E e \in ModelErrors : error' = e
    /\ pc' = "chatbot"
    /\ llm_input' = ModelInput(messages)
    /\ UNCHANGED <<nb, handle_tool_errors, memory, message_history, thread,
                   loaded, messages, steps, turns, printed,
                   filtered_messages>>

\* model_with_tools.invoke raises: nothing is caught, the run ends
model_raises ==
    /\ pc = "chatbot"
    /\ steps < recursion_limit
    /\ ~(nb = 9 /\ EchoBranch(messages))
    /\ \E e \in ModelErrors : error' = e
    /\ pc' = "raised"
    /\ llm_input' = ModelInput(messages)
    /\ UNCHANGED <<nb, handle_tool_errors, memory, message_history, thread,
                   loaded, messages, steps, turns, printed,
                   filtered_messages>>

\* The "tools" node: every tool call of the last message is executed
tool_node ==
    /\ pc = "tools"
    /\ steps < recursion_limit
    /\ LET calls == Last(messages).tool_calls IN
       \E llm \in [1..Len(calls) -> LLMOutcomes] :
         LET outs == ToolOutputs(calls, llm) IN
         IF (\E k \in 1..Len(calls) : outs[k].raised) /\ ~handle_tool_errors
         THEN /\ pc' = "raised"
              /\ error' = outs[CHOOSE k \in 1..Len(calls) : outs[k].raised].text
              /\ UNCHANGED <<messages, memory, steps, printed>>
         ELSE /\ messages' = add_messages(messages, ToolMessages(calls, outs))
              /\ printed' = multi_tool_output(nb, printed, Contents(ToolMessages(calls, outs)))
              /\ memory' = checkpoint(memory, nb, thread, messages')
              /\ pc' = "chatbot"
              /\ steps' = steps + 1
              /\ UNCHANGED error
    /\ UNCHANGED <<nb, handle_tool_errors, message_history, thread, loaded,
                   llm_input, turns, filtered_messages>>

\* A node is scheduled but the superstep budget is used up
out_of_steps ==
    /\ Running
    /\ steps >= recursion_limit
    /\ pc' = "raised"
    /\ error' = "GraphRecursionError"
    /\ UNCHANGED <<nb, handle_tool_errors, memory, message_history, thread,
                   loaded, messages, steps, llm_input, turns, printed,
                   filtered_messages>>

\* The caller abandons the run while a node waits for the model or a tool
cancel ==
    /\ Running
    /\ steps < recursion_limit
    /\ pc' = "raised"
    /\ error' = "Cancelled"
    /\ UNCHANGED <<nb, handle_tool_errors, memory, message_history, thread,
                   loaded, messages, steps, llm_input, turns, printed,
                   filtered_messages>>

Next ==
    \/ \E tid \in Threads, query \in Queries : stream(tid, query)
    \/ \E query \in Queries : invoke(query)
    \/ call_model
    \/ model_raises
    \/ tool_node
    \/ out_of_steps
    \/ cancel

Spec == Init /\ [][Next]_vars

-----------------------------------------------------------------------------
(* One run from the first tool call on, over a wider set of tool inputs     *)

PalindromeTexts ==
    { <<"L", "e", "v", "e", "l">>, <<"a", "b">>, <<"A", "b">>, <<"b", "A", "B">>,
      << >>, <<"!", "?">>, <<"a", "!", "A">>, <<"a", " ", "b", ",", "a">>,
      <<"1", "a", "1">>, <<"1", "2">> }

HypotenuseInputs ==
    { <<"3", ",", " ", "4">>, <<" ", "6", ",", "8", " ">>, <<"5", ",", "1", "2">>,
      <<"3", ",", "4", ",", "5">>, <<"1", ",", "1">>, <<"0", ",", "0">>,
      <<"a", "b", "c">>, <<"3">>, <<"3", ",">>, << >> }

ToolInputs(n) ==
    IF n = 9
    THEN {<<"check_palindrome", t>> : t \in PalindromeTexts}
           \cup {<<"date_checker", <<"1", "9", "5", "5">> >>,
                 <<"wikipedia_tool", <<"a", "b">> >>}
    ELSE {<<"hypotenuse_length", t>> : t \in HypotenuseInputs}
           \cup {<<"wikipedia_tool", <<"a", "b">> >>}

\* The state after the first answer of the model, when that answer asks for
\* one tool call
InitTools ==
    \E input \in ToolInputs(7) \cup ToolInputs(9) :
      LET request == <<HumanMessage("q1")>>
          answer  == AIMessage("", <<ToolCall(<<2, 1>>, input[1], input[2])>>)
      IN
        /\ nb \in {7, 9}
        /\ input \in ToolInputs(nb)
        /\ handle_tool_errors \in BOOLEAN
        /\ thread = "1"
        /\ loaded = << >>
        /\ messages = add_messages(request, <<answer>>)
        /\ memory = checkpoint(<< >>, nb, "1", messages)
        /\ message_history = << >>
        /\ pc = should_continue(answer)
        /\ steps = 1
        /\ error = ""
        /\ llm_input = ModelInput(request)
        /\ turns = 1
        /\ printed = ""
        /\ filtered_messages = << >>

\* The rest of that run: no further run is started
NextTools ==
    \/ call_model
    \/ model_raises
    \/ tool_node
    \/ out_of_steps
    \/ cancel

SpecTools == InitTools /\ [][NextTools]_vars

-----------------------------------------------------------------------------
(* Properties                                                               *)

IsPrefix(a, b) == Len(a) <= Len(b) /\ SubSeq(b, 1, Len(a)) = a

\* the tool calls of log[i] are answered by the messages right after it: one
\* tool message per call, in the order of the calls, and no more
Answered(log, i) ==
    LET calls == log[i].tool_calls IN
    /\ i + Len(calls) <= Len(log)
    /\ \A k \in 1..Len(calls) :
          /\ log[i + k].role = "tool"
          /\ log[i + k].tool_call_id = calls[k].id
    /\ (i + Len(calls) < Len(log) => log[i + Len(calls) + 1].role # "tool")

IsBatch(m) == m.role = "assistant" /\ m.tool_calls # << >>

\* C1: every assistant message with N tool calls is followed by exactly N
\* tool messages, one per call and in the calls' order, before the model is
\* invoked again or anything else is appended; an unanswered batch is the
\* last message of the log and the model is not the next to run.
C1_EveryBatchAnswered ==
    \A i \in 1..Len(messages) :
        IsBatch(messages[i]) =>
            \/ Answered(messages, i)
            \/ i = Len(messages) /\ pc # "chatbot"

\* C2: when the chatbot node hands on, exactly the model's answer has been
\* appended, the run is at END if and only if that answer has no tool calls
\* and at "tools" otherwise; nothing leaves END but the start of a new run;
\* at END the last message is the assistant's answer (in notebook 07 it is
\* the last message of the response).
C2_ModelResultRoutes ==
    [][ /\ (pc = "chatbot" /\ pc' \in {"tools", "END"}) =>
            /\ Len(messages') = Len(messages) + 1
            /\ IsPrefix(messages, messages')
            /\ Last(messages').role = "assistant"
            /\ (pc' = "END" <=> Last(messages').tool_calls = << >>)
            /\ (pc' = "tools" <=> Last(messages').tool_calls # << >>)
        /\ (pc = "END" => (pc' = "END" /\ messages' = messages)
                            \/ turns' = turns + 1)
        /\ (pc' = "END" =>
              /\ Last(messages').role = "assistant"
              /\ Last(messages').tool_calls = << >>
              /\ (nb = 7 => Last(message_history') = Last(messages')))
      ]_vars

C2_Witness ==
    /\ pc = "END"
    /\ steps >= 3
    /\ messages[Len(messages) - 1].role = "tool"

\* the exceptions the tool functions raise
ToolErrors == {"ValueError", "IndexError"}

\* C3: a run is never ended by the exception of a tool: the failure becomes
\* the content of a tool message and the run goes on to the model.
C3_ToolFailureNeverAborts == ~(pc = "raised" /\ error \in ToolErrors)

\* C4: a run that uses up its budget of round trips ends at END with a
\* message flagging the truncation; it does not end with a thrown error.
C4_CapEndsInDone ==
    (steps >= recursion_limit /\ ~Running) =>
        /\ pc = "END"
        /\ Last(messages).role = "assistant"
        /\ error = ""

\* C5: the message log is append-only: every step leaves each thread's
\* checkpointed log, the caller's message_history and (within a run) the
\* run's state a prefix of what it is after the step.
C5_AppendOnly ==
    [][ /\ \A t \in DOMAIN memory :
              t \in DOMAIN memory' /\ IsPrefix(memory[t], memory'[t])
        /\ IsPrefix(message_history, message_history')
        /\ (turns' = turns => IsPrefix(messages, messages'))
        /\ (turns' = turns + 1 =>
              /\ IsPrefix(loaded', messages')
              /\ IsPrefix(message_history, messages'))
      ]_vars

C5_Witness ==
    /\ turns = 2
    /\ \E t \in DOMAIN memory : Len(memory[t]) >= 6

\* C6: after the tool node has appended its messages the chatbot node runs
\* next, and every assistant message appended during a run is the model's
\* answer to the full history before it, tool messages included; no run
\* takes the branch of call_model that echoes a tool call.
C6_RequeryAfterTools ==
    [][ /\ (pc = "tools" /\ messages' # messages) =>
              pc' = "chatbot" /\ Last(messages').role = "tool"
        /\ (turns' = turns /\ messages' # messages
              /\ Last(messages').role = "assistant") =>
              /\ llm_input' = messages
              /\ Len(messages') = Len(messages) + 1
        /\ error' # "KeyError"
      ]_vars

C6_Witness ==
    /\ pc = "END"
    /\ Len(messages) >= 4
    /\ messages[Len(messages) - 1].role = "tool"
    /\ llm_input = SubSeq(messages, 1, Len(messages) - 1)

\* C7: with the checkpointer, a run starts from the log its thread's last
\* run left in the store followed by the new user message, that is what the
\* model is first given, and when the run is at END the store holds the
\* run's whole log.
C7_MemoryAcrossTurns ==
    [][ /\ (nb = 9 /\ turns' = turns + 1) =>
              /\ loaded' = (IF thread' \in DOMAIN memory
                            THEN memory[thread'] ELSE << >>)
              /\ Len(messages') = Len(loaded') + 1
              /\ IsPrefix(loaded', messages')
              /\ Last(messages').role = "user"
        /\ (nb = 9 /\ pc = "chatbot" /\ steps = 0 /\ llm_input' # llm_input) =>
              llm_input' = messages
        /\ (nb = 9 /\ pc' = "END") =>
              thread' \in DOMAIN memory' /\ memory'[thread'] = messages'
      ]_vars

C7_Witness ==
    /\ nb = 9
    /\ turns = 2
    /\ pc = "END"
    /\ Len(loaded) >= 2
    /\ memory[thread] = messages

\* C8: when a run is cancelled, the store holds for its thread either the
\* log the run started from or the log of the completed turn, and no
\* stored log has a tool call without its tool message.
C8_CancelAllOrNothing ==
    (nb = 9 /\ pc = "raised" /\ error = "Cancelled") =>
        /\ get_tuple(memory, thread) = loaded
        /\ \A t \in DOMAIN memory : \A i \in 1..Len(memory[t]) :
              IsBatch(memory[t][i]) => Answered(memory[t], i)

C12_ModelErrorNotRetried ==
    [][ /\ (pc = "chatbot" /\ turns' = turns /\ error' \in ModelErrors) =>
              /\ pc' = "raised"
              /\ messages' = messages
              /\ memory' = memory
              /\ steps' = steps
        /\ (pc = "raised" /\ error \in ModelErrors) => turns' = turns + 1
      ]_vars

C12_Witness ==
    /\ pc = "raised"
    /\ error \in ModelErrors
    /\ steps = 2
    /\ Last(messages).role = "tool"

\* C18: while a run is in progress no other run starts and no user message
\* is appended: the thread and the count of runs stay as they are, and what
\* a step of the run appends are assistant or tool messages.
C18_OneTurnAtATime ==
    [][ (pc = "chatbot" \/ pc = "tools") =>
            /\ turns' = turns
            /\ thread' = thread
            /\ IsPrefix(messages, messages')
            /\ \A i \in (Len(messages) + 1)..Len(messages') :
                  messages'[i].role # "user"
      ]_vars

C18_Witness ==
    /\ turns = 2
    /\ pc = "tools"
    /\ Len(loaded) >= 2

\* C19: the chatbot node is never entered with an assistant message that
\* carries tool calls as the last message, and no run ends in the branch of
\* call_model that reads tool_calls[0]["response"].
C19_EchoBranchNeverTaken ==
    /\ pc = "chatbot" =>
          ~(Last(messages).role = "assistant" /\ Last(messages).tool_calls # << >>)
    /\ error # "KeyError"

C19_Witness ==
    /\ nb = 9
    /\ pc = "chatbot"
    /\ steps = 2
    /\ turns = 2
    /\ Last(messages).role = "tool"

\* C20: when a run is at END the log stored for its thread ends with an
\* assistant message without tool calls, and when a run starts the last
\* message of its state is the user message just appended.
C20_CompletedTurnEndsWithAnswer ==
    /\ (nb = 9 /\ pc = "END") =>
          /\ thread \in DOMAIN memory
          /\ Last(memory[thread]).role = "assistant"
          /\ Last(memory[thread]).tool_calls = << >>
    /\ (pc = "chatbot" /\ steps = 0) => Last(messages).role = "user"

C20_Witness ==
    /\ nb = 9
    /\ turns = 2
    /\ pc = "chatbot"
    /\ steps = 0
    /\ Len(loaded) >= 4
    /\ Last(loaded).role = "assistant"
    /\ Last(loaded).tool_calls = << >>


\* C13: registry errors are fatal and never become tool results; in
\* particular a call that names a tool which is not registered is never
\* answered: the batch that holds it stays the last message of the log.
C13_UnknownToolIsFatal ==
    \A i \in 1..Len(messages) :
       (/\ IsBatch(messages[i])
        /\ \E k \in 1..Len(messages[i].tool_calls) :
              messages[i].tool_calls[k].name \notin tools(nb))
       => i = Len(messages)

\* C14: the text streamed to the caller during a turn equals the content of
\* the turn's final assistant message.
C14_StreamedTextIsFinalText ==
    (nb = 9 /\ pc = "END") => printed = Last(messages).content

SameIgnoringCase(a, b) ==
    a = b \/ {a, b} \in {{"a", "A"}, {"b", "B"}, {"l", "L"}}

\* the alphanumeric characters of text are symmetric up to case
ReadsSameReversed(text) ==
    LET P == {i \in 1..Len(text) : isalnum(text[i])}
        rank(i) == Cardinality({j \in P : j <= i})
    IN  \A i, j \in P :
           rank(i) + rank(j) = Cardinality(P) + 1
              => SameIgnoringCase(text[i], text[j])

PalindromeAnswer(text) ==
    "The phrase or word '" \o Join(text) \o
       (IF ReadsSameReversed(text) THEN "' is a palindrome."
                                   ELSE "' is not a palindrome.")

\* C16: the palindrome tool answers "is a palindrome" exactly when the
\* alphanumeric characters of its input, lower-cased, read the same reversed
\* (the empty and the punctuation-only input included), under both of its
\* names; and a palindrome call is recorded with exactly one tool message,
\* the one that carries this answer, once its batch has been answered.
C16_PalindromeTool ==
    /\ \A t \in PalindromeTexts :
          palindrome_checker(t) = Returned(PalindromeAnswer(t))
    /\ \A i \in 1..Len(messages) :
          (nb = 9 /\ IsBatch(messages[i])) =>
             \A k \in 1..Len(messages[i].tool_calls) :
                LET call    == messages[i].tool_calls[k]
                    answers == {j \in 1..Len(messages) :
                                  /\ messages[j].role = "tool"
                                  /\ messages[j].tool_call_id = call.id}
                IN  call.name = "check_palindrome" =>
                       IF i < Len(messages)
                       THEN /\ answers = {i + k}
                            /\ messages[i + k].content = PalindromeAnswer(call.args)
                       ELSE answers = {}

C16_Witness ==
    /\ nb = 9
    /\ pc = "END"
    /\ Len(messages) = 4
    /\ messages[2].tool_calls[1].args = <<"!", "?">>
    /\ messages[3].content = "The phrase or word '!?' is a palindrome."

\* the sides a well-formed input stands for
Sides ==
    [ input \in { <<"3", ",", " ", "4">>, <<" ", "6", ",", "8", " ">>,
                  <<"5", ",", "1", "2">>, <<"3", ",", "4", ",", "5">>,
                  <<"0", ",", "0">> } |->
        CASE input = <<"3", ",", " ", "4">>      -> <<3, 4>>
          [] input = <<" ", "6", ",", "8", " ">> -> <<6, 8>>
          [] input = <<"5", ",", "1", "2">>      -> <<5, 12>>
          [] input = <<"3", ",", "4", ",", "5">> -> <<3, 4>>
          [] input = <<"0", ",", "0">>           -> <<0, 0>> ]

IsRootOfSquares(text, a, b) ==
    \E r \in 0..(a + b) : r * r = a * a + b * b /\ text = ToString(r) \o ".0"

\* C17: for a comma-separated pair "a, b", spaces around the numbers
\* ignored, the tool message that answers a hypotenuse_length call carries
\* the square root of a*a + b*b, 5.0 for "3, 4", and that is the text the
\* model is given when it is queried again.
C17_Hypotenuse ==
    \A i \in 1..Len(messages) :
       (nb = 7 /\ IsBatch(messages[i]) /\ i < Len(messages)) =>
          \A k \in 1..Len(messages[i].tool_calls) :
             LET call == messages[i].tool_calls[k] IN
             (call.name = "hypotenuse_length" /\ call.args \in DOMAIN Sides) =>
                /\ messages[i + k].role = "tool"
                /\ messages[i + k].tool_call_id = call.id
                /\ IsRootOfSquares(messages[i + k].content,
                                   Sides[call.args][1], Sides[call.args][2])
                /\ (call.args = <<"3", ",", " ", "4">>
                      => messages[i + k].content = "5.0")
                /\ (Len(llm_input) >= i + k => llm_input[i + k] = messages[i + k])

C17_Witness ==
    /\ nb = 7
    /\ Len(messages) = 4
    /\ messages[2].tool_calls[1].args = <<"3", ",", " ", "4">>
    /\ messages[3].content = "5.0"
    /\ llm_input = SubSeq(messages, 1, 3)


\* C21: a step of a turn on one thread_id leaves the stored state of every
\* other thread_id as it was, and no step removes a thread_id's stored state:
\* a thread_id that has a checkpoint keeps one, and what is stored for the
\* running thread only grows while its run goes on.
C21_OnlyOwnSessionChanges ==
    [][ /\ DOMAIN memory \subseteq DOMAIN memory'
        /\ \A t \in DOMAIN memory : t # thread' => memory'[t] = memory[t]
        /\ \A t \in DOMAIN memory : IsPrefix(memory[t], memory'[t])
        /\ DOMAIN memory' \subseteq DOMAIN memory \cup {thread'} ]_vars

C21_Witness ==
    /\ nb = 9
    /\ thread = "2"
    /\ pc = "tools"
    /\ DOMAIN memory = {"1", "2"}
    /\ Len(memory["1"]) >= 4
    /\ Len(memory["2"]) = 2


\* what a date tool hands back for an outcome of its model call
DateAnswer(llm) ==
    CASE llm = Returned("events") -> "events"
      [] llm = Raised("timeout")  -> "Error retrieving events: timeout"

\* C22: the date tools never raise. Whatever the model call inside the
\* handler does, both handlers return: the model's content, or the text
\* "Error retrieving events: <message>". So a run of notebook 09 never ends
\* with the exception of a tool, and the tool message that answers a
\* date_checker call carries one of these two texts, never ToolNode's own
\* error wrapper.
C22_DateToolsNeverRaise ==
    /\ \A llm \in LLMOutcomes :
          /\ date_checker(<<"1", "9", "5", "5">>, llm) = Returned(DateAnswer(llm))
          /\ historical_events(<<"1", "9", "5", "5">>, llm) = Returned(DateAnswer(llm))
    /\ nb = 9 => error \notin {"timeout"} \cup ToolErrors
    /\ \A i \in 1..Len(messages) :
          (nb = 9 /\ IsBatch(messages[i])) =>
             \A k \in 1..Len(messages[i].tool_calls) :
                (/\ messages[i].tool_calls[k].name = "date_checker"
                 /\ i + k <= Len(messages)
                 /\ messages[i + k].role = "tool"
                 /\ messages[i + k].tool_call_id = messages[i].tool_calls[k].id)
                => messages[i + k].content \in {DateAnswer(llm) : llm \in LLMOutcomes}

C22_Witness ==
    /\ nb = 9
    /\ ~handle_tool_errors
    /\ pc = "END"
    /\ Len(messages) = 4
    /\ messages[2].tool_calls[1].name = "date_checker"
    /\ messages[3].content = "Error retrieving events: timeout"


\* C23: notebook 07, no checkpointer. A run is started on the prior message
\* history followed by the new user message, and whatever the run appends,
\* the list keeps that history and that user message as its first messages,
\* in order. The conversation displayed for a finished run is the returned
\* list restricted to the user and assistant messages whose content is not
\* blank, in the order of the list: no tool message and no assistant message
\* with empty content is shown, and nothing else is left out.
C23_HistoryPrefixAndDisplay ==
    [][ nb = 7 =>
          /\ turns' = turns + 1 =>
                /\ IsPrefix(message_history, messages')
                /\ Len(messages') = Len(message_history) + 1
                /\ Last(messages').role = "user"
          /\ (turns' = turns /\ turns > 0) =>
                IsPrefix(SubSeq(messages, 1, Len(message_history) + 1), messages')
          /\ pc' = "END" =>
                LET response == messages'
                    kept == {i \in 1..Len(response) :
                               /\ response[i].role # "tool"
                               /\ response[i].content # ""}
                    rank(i) == Cardinality({j \in kept : j <= i})
                IN  /\ Len(filtered_messages') = Cardinality(kept)
                    /\ \A i \in kept : filtered_messages'[rank(i)] = response[i]
                    /\ \A j \in 1..Len(filtered_messages') :
                          /\ filtered_messages'[j].role \in {"user", "assistant"}
                          /\ filtered_messages'[j].content # ""
        ]_vars

C23_Witness ==
    /\ nb = 7
    /\ turns = 2
    /\ pc = "END"
    /\ Len(messages) = 6
    /\ messages[5].role = "tool"
    /\ Len(filtered_messages) = 4
    /\ filtered_messages[3].content = "q2"

=============================================================================
